---- MODULE Spec2Model ----
(***************************************************************************)
(* Daily Tracker: the record store and its synchronisation with the three  *)
(* data sources (remote backend, localStorage cache, static data/index.json)*)
(* in the three variants of DailyTracker the repository holds:             *)
(*   "static"  src/app.js                 (bootstrap file only)            *)
(*   "sheets"  src/unnamed/part_001:1-682  (Google Sheets backend)         *)
(*   "github"  src/unnamed/part_001:684-1224 (GitHub contents API backend) *)
(* together with the Apps Script server of src/google-apps-script.gs.      *)
(*                                                                         *)
(* One browser session is modelled.  Every await of the code is a          *)
(* suspension point: the request is in flight while the pc names it, and   *)
(* the step that receives the response runs the handler to its next await. *)
(***************************************************************************)
EXTENDS Integers, Sequences, FiniteSets, TLC

(***************************************************************************)
(* Bounds and sample values                                                *)
(***************************************************************************)
\* the server clock (new Date() of Apps Script) runs over 0..MaxClock
MaxClock == 1
\* how many times the session calls saveEntry and forceSync, and how many times
\* another session writes the remote document
MaxSaves == 2
MaxSyncs == 1
MaxOtherWrites == 1

D1 == "2026-01-01"
D2 == "2026-01-02"
\* the DateKeys of the model, in the order JSON.stringify emits them
DateSeq == <<D1, D2>>
Dates == {DateSeq[i] : i \in 1..Len(DateSeq)}

\* what the user may have typed into #entryTitle (sequences of characters)
TitleInputs == {<<>>, <<" ">>, <<" ", "a", " ">>}
\* the level buttons the user may have chosen (this.selectedLevel)
SaveLevels == {3}
\* what the user may have typed into #entryContent
ContentInputs == {"new"}

\* records already present in a source when the session starts
OldA == [title |-> <<"o">>, level |-> 2, content |-> "old", updatedAt |-> 0]
OldB == [title |-> <<"p">>, level |-> 0, content |-> ""]
\* the record another session writes to the GitHub document
OtherRec == [title |-> <<"w">>, level |-> 4, content |-> "other"]
\* the dates that session saves
OtherDates == {D2}

EmptyMap == [d \in {} |-> OldB]
Map1(d, r) == [x \in {d} |-> r]
Map2(r1, r2) == [x \in {D1, D2} |-> IF x = D1 THEN r1 ELSE r2]
\* the mappings the remote backend, the cache and data/index.json may hold
\* when the session starts
RemoteMaps == {EmptyMap, Map2(OldB, OldA)}
CacheMaps == {EmptyMap, Map1(D2, OldB)}
BootMaps == {EmptyMap, Map1(D1, OldB)}

(***************************************************************************)
(* Pure helpers                                                            *)
(***************************************************************************)
IsSpace(c) == c = " "

RECURSIVE TrimLeft(_)
TrimLeft(s) == IF s # <<>> /\ IsSpace(Head(s)) THEN TrimLeft(Tail(s)) ELSE s

RECURSIVE TrimRight(_)
TrimRight(s) ==
    IF s # <<>> /\ IsSpace(s[Len(s)]) THEN TrimRight(SubSeq(s, 1, Len(s) - 1)) ELSE s

\* a string that is empty or holds white space only
IsBlank(s) == \A i \in 1..Len(s) : IsSpace(s[i])

\* a title read without trim(), as a faulty saveEntry would read it
TitleUntrimmed(s) == s

\* String.prototype.trim
Trim(s) == TrimRight(TrimLeft(s))

\* JSON.stringify(obj): the entries of obj, one <<key, value>> per key, in key order
JsonStringify(m) ==
    LET keys == SelectSeq(DateSeq, LAMBDA d : d \in DOMAIN m)
    IN  [i \in 1..Len(keys) |-> <<keys[i], m[keys[i]]>>]

\* JSON.parse(text) of an object: the last entry of a key wins
JsonParse(t) ==
    [d \in {t[i][1] : i \in 1..Len(t)} |->
        LET last == CHOOSE i \in 1..Len(t) :
                        /\ t[i][1] = d
                        /\ \A j \in (i + 1)..Len(t) : t[j][1] # d
        IN  t[last][2]]

\* a faulty assignment that merges the fields of r into the entry already there
UpsertFieldMerge(m, d, r) ==
    [x \in DOMAIN m \cup {d} |->
        IF x # d THEN m[x]
        ELSE IF d \in DOMAIN m
        THEN [k \in DOMAIN m[d] \cup DOMAIN r |-> IF k \in DOMAIN r THEN r[k] ELSE m[d][k]]
        ELSE r]

\* obj[key] = value
Upsert(m, d, r) == [x \in DOMAIN m \cup {d} |-> IF x = d THEN r ELSE m[x]]

\* the object literal { title, level, content } both clients store for a save
StoreEntry(e) == [title |-> e.title, level |-> e.level, content |-> e.content]

\* a JavaScript value that is either null or an object
Null == [tag |-> "null"]
Val(m) == [tag |-> "val", val |-> m]
Thrown == [tag |-> "throw"]

\* updateStats reads v.level of every entry of the store: it raises a TypeError
\* when an entry is null (renderHeatmap, which runs before it, does not)
RenderThrows(d) == \E k \in DOMAIN d : d[k] = Null

(***************************************************************************)
(* localStorage: the slot CONFIG.LOCAL_STORAGE_KEY                          *)
(***************************************************************************)
CacheAbsent == [kind |-> "absent"]
CacheMalformed == [kind |-> "malformed"]
CacheJson(t) == [kind |-> "json", text |-> t]
InitCaches == {CacheAbsent, CacheMalformed} \cup {CacheJson(JsonStringify(m)) : m \in CacheMaps}

\* a faulty loadFromLocalStorage without its try/catch: a parse error propagates
LoadFromLocalStorageUncaught(c) ==
    CASE c.kind = "absent" -> Null
      [] c.kind = "malformed" -> Thrown
      [] OTHER -> Val(JsonParse(c.text))

\* loadFromLocalStorage: getItem, JSON.parse, null when absent or when parse throws
LoadFromLocalStorage(c) ==
    CASE c.kind = "absent" -> Null
      [] c.kind = "malformed" -> Null
      [] OTHER -> Val(JsonParse(c.text))

\* a faulty saveToLocalStorage that writes nothing
SaveToLocalStorageNothing(c, d, writeOk) == c

\* saveToLocalStorage: setItem(JSON.stringify(this.data)); a failing write
\* (quota exceeded) is swallowed and leaves the slot as it was
SaveToLocalStorage(c, d, writeOk) ==
    IF writeOk THEN CacheJson(JsonStringify(d)) ELSE c

\* a faulty test that takes the empty cached mapping and leaves the others
CacheUsableIfEmpty(localData) == localData.tag = "val" /\ DOMAIN localData.val = {}

\* localData && Object.keys(localData).length > 0
CacheUsable(localData) == localData.tag = "val" /\ DOMAIN localData.val # {}

(***************************************************************************)
(* Remote backend B: the file data/index.json behind the GitHub contents   *)
(* API.  The version token (sha) of a file is the hash of its content, so  *)
(* it is modelled by the content itself; '' is the token of no file.       *)
(***************************************************************************)
NoFile == [exists |-> FALSE]
File(t) == [exists |-> TRUE, text |-> t]
InitFiles == {NoFile} \cup {File(JsonStringify(m)) : m \in RemoteMaps}

NoSha == <<>>
ShaOf(f) == IF f.exists THEN <<f.text>> ELSE NoSha

\* how a request may end: answered by the server, rejected by the network,
\* answered with a non-OK status, or answered 200 with a body that does not parse
Outcomes == {"served", "rejected", "nonok", "garbled"}

\* fetchFromGithub: the parsed file on a 200 that parses, null otherwise
\* (a missing file is a 404; every exception is caught and logged)
FetchFromGithub(f, outcome) ==
    IF outcome = "served" /\ f.exists THEN Val(JsonParse(f.text)) ELSE Null

\* a faulty server that takes a PUT without a sha for the creation of the file,
\* whether the file exists or not
GithubPutWithoutSha(f, sha) == sha = ShaOf(f) \/ sha = NoSha

\* a faulty server that accepts every PUT, whatever sha it carries
GithubPutUnconditional(f, sha) == TRUE

\* the contents API's PUT: accepted when the sha sent is that of the current file
GithubPutAccepted(f, sha) == sha = ShaOf(f)

(***************************************************************************)
(* Remote backend A: the sheet DailyRecords behind the Apps Script web app *)
(***************************************************************************)
\* the body of a POST: {date, title, level, content}
NoRequest == [date |-> D1, title |-> <<>>, level |-> 0, content |-> ""]

RowOf(d, r, ts) ==
    [date |-> d, title |-> r.title, level |-> r.level, content |-> r.content,
     updatedAt |-> ts]
InitSheets == {<<>>, <<RowOf(D2, OldA, 0), RowOf(D1, OldB, 0)>>}

\* getAllRecords: records[dateKey] = {title, level, content, updatedAt} per row,
\* a later row of the same date overwriting an earlier one
GetAllRecords(rows) ==
    [d \in {rows[i].date : i \in 1..Len(rows)} |->
        LET last == CHOOSE i \in 1..Len(rows) :
                        /\ rows[i].date = d
                        /\ \A j \in (i + 1)..Len(rows) : rows[j].date # d
        IN  [title |-> rows[last].title, level |-> rows[last].level,
             content |-> rows[last].content, updatedAt |-> rows[last].updatedAt]]

\* a faulty saveRecord that leaves the stamp of the row it overwrites
SaveRecordOldStamp(rows, e, timestamp) ==
    LET hits == {i \in 1..Len(rows) : rows[i].date = e.date}
    IN  IF hits # {}
        THEN LET rowIndex == CHOOSE i \in hits : \A j \in hits : i <= j
             IN  [rows EXCEPT ![rowIndex] = RowOf(e.date, e, rows[rowIndex].updatedAt)]
        ELSE Append(rows, RowOf(e.date, e, timestamp))

\* saveRecord: the first row whose date equals data.date is overwritten,
\* otherwise a row is appended; the server stamps the row
SaveRecord(rows, e, timestamp) ==
    LET hits == {i \in 1..Len(rows) : rows[i].date = e.date}
        rowData == RowOf(e.date, e, timestamp)
    IN  IF hits # {}
        THEN LET rowIndex == CHOOSE i \in hits : \A j \in hits : i <= j
             IN  [rows EXCEPT ![rowIndex] = rowData]
        ELSE Append(rows, rowData)

\* loadData (sheets): response.ok, the body parses, result.success && result.data
FetchFromSheets(rows, outcome) ==
    IF outcome = "served" THEN Val(GetAllRecords(rows)) ELSE Null

(***************************************************************************)
(* State                                                                   *)
(***************************************************************************)
VARIABLES
    variant,        \* which DailyTracker runs: "static", "sheets" or "github"
    useSheets,      \* CONFIG.USE_GOOGLE_SHEETS && CONFIG.GOOGLE_SCRIPT_URL
    githubToken,    \* this.githubToken ("" when none is stored)
    data,           \* this.data, the record store
    cache,          \* the localStorage slot
    ghFile,         \* the remote document of backend B
    sheet,          \* the rows of backend A, header row left out
    clock,          \* the server's time
    loadPc,         \* init(): "start", "remote", "bootstrap", "loaded", "ready"
    loadLog,        \* history: what loadData read and received (kept until init ends)
    savePc,         \* saveEntry(): "idle", "get", "put", "post"
    entryData,      \* the entry of the save in flight
    saveCtx,        \* saveToGithub's sha and currentContent between GET and PUT
    saveLog,        \* history: the latest saveEntry call
    syncPc,         \* forceSync(): "idle", "sent", "replied", "cooldown"
    syncResp,       \* the response a forceSync is about to receive
    formStatus,     \* the type of the latest showStatus call
    saveBtnDisabled,
    settingsShown,  \* #settingsModal has class "show"
    ops,            \* how many saveEntry, forceSync and foreign writes have started
    unhandled       \* an error escaped an async handler to the process level

\* the views (progress bar, heatmap, statistics) and what they read besides this.data
VARIABLES
    today,          \* the local calendar day of new Date(), as a day number
    zone,           \* the browser's time zone: [west, dst]
    currentYear,    \* this.currentYear, the display year
    viewPc,         \* init() after loadData: "progress", "heatmap", "stats", "ready"
    progress,       \* what updateProgress last displayed
    grid,           \* the cells renderHeatmap last appended to #heatmapGrid
    stats           \* what updateStats last displayed

\* the Apps Script server: the executions of doPost that are under way
VARIABLES
    execs           \* per execution: the request, and what saveRecord has read

vars ==
    <<variant, useSheets, githubToken, data, cache, ghFile, sheet, clock, loadPc,
      loadLog, savePc, entryData, saveCtx, saveLog, syncPc, syncResp,
      formStatus, saveBtnDisabled, settingsShown, ops, unhandled,
      today, zone, currentYear, viewPc, progress, grid, stats, execs>>

serverVars == <<execs>>

\* the executions the web app may run at the same time
Execs == {1, 2}
\* an execution that is not running; `posts` counts the requests it has served
IdleExec == [pc |-> "idle", data |-> NoRequest, rowIndex |-> 0, timestamp |-> 0, posts |-> 0]
\* the session's requests are served in one step: no execution is tracked
ServerOff == execs = [i \in Execs |-> IdleExec]

viewVars == <<today, zone, currentYear, viewPc, progress, grid, stats>>

NoZone == [west |-> FALSE, dst |-> "none"]
NoProgress == [totalDays |-> 0, elapsedDays |-> 0, remainingDays |-> 0,
               percentage |-> [num |-> 0, den |-> 1], phase |-> 0]
NoStats == [totalDays |-> 0, currentStreak |-> 0, thisMonth |-> 0]

\* the views are not rendered: the specification of the store's synchronisation
\* leaves them out
ViewOff ==
    /\ today = 0
    /\ zone = NoZone
    /\ currentYear = 1970
    /\ viewPc = "off"
    /\ progress = NoProgress
    /\ grid = <<>>
    /\ stats = NoStats

NoEntry == [date |-> D1, title |-> <<>>, level |-> 0, content |-> ""]
NoCtx == [sha |-> NoSha, currentContent |-> EmptyMap]
NoLoadLog ==
    [remote |-> "unset", seen |-> Null, cacheBefore |-> CacheAbsent, cacheRead |-> FALSE,
     bootstrap |-> "unset", bootContent |-> Null, cacheWritten |-> "no"]
NoSaveLog ==
    [requests |-> <<>>, result |-> "none", push |-> "none", message |-> "none",
     blank |-> FALSE, keysBefore |-> {}, cacheWritten |-> "no", sha |-> "none"]

\* the state after the constructor: this.data = {}, no request issued yet
Init ==
    /\ variant \in {"static", "sheets", "github"}
    /\ useSheets \in (IF variant = "sheets" THEN BOOLEAN ELSE {FALSE})
    /\ githubToken \in (IF variant = "github" THEN {"", "tok"} ELSE {""})
    /\ data = EmptyMap
    /\ cache \in (IF variant = "static" THEN {CacheAbsent} ELSE InitCaches)
    /\ ghFile \in (IF variant = "github" THEN InitFiles ELSE {NoFile})
    /\ sheet \in (IF variant = "sheets" THEN InitSheets ELSE {<<>>})
    /\ clock = 0
    /\ loadPc = "start"
    /\ loadLog = NoLoadLog
    /\ savePc = "idle"
    /\ entryData = NoEntry
    /\ saveCtx = NoCtx
    /\ saveLog = NoSaveLog
    /\ syncPc = "idle"
    /\ syncResp = Null
    /\ formStatus = "none"
    /\ saveBtnDisabled = FALSE
    /\ settingsShown = FALSE
    /\ ops = [saves |-> 0, syncs |-> 0, others |-> 0]
    /\ unhandled = FALSE
    /\ ViewOff
    /\ ServerOff

cfgVars == <<variant, useSheets>>
remoteVars == <<ghFile, sheet, clock>>
saveVars == <<savePc, entryData, saveCtx, saveLog>>
syncVars == <<syncPc, syncResp>>
uiVars == <<formStatus, saveBtnDisabled, settingsShown>>

(***************************************************************************)
(* loadData                                                                *)
(***************************************************************************)
\* the guard of loadData's first block: a token (github), the Sheets URL (sheets)
RemoteConfigured ==
    \/ variant = "github" /\ githubToken # ""
    \/ variant = "sheets" /\ useSheets

\* the status a GET ends with: GitHub answers 404 for a file that does not exist
GetOutcome(outcome) ==
    IF variant = "github" /\ outcome = "served" /\ ~ghFile.exists THEN "nonok" ELSE outcome

\* the remote record set as the variant's fetch returns it, or null
FetchRemote(outcome) ==
    IF variant = "github" THEN FetchFromGithub(ghFile, outcome)
    ELSE FetchFromSheets(sheet, outcome)

\* loadData from "Try to load from localStorage" to the bootstrap fetch
LoadLocal(d, c) ==
    LET localData == LoadFromLocalStorage(c)
    IN  IF localData.tag = "throw"
        THEN [data |-> d, cache |-> c, next |-> "failed"]
        ELSE IF CacheUsable(localData)
        THEN [data |-> localData.val, cache |-> c, next |-> "loaded"]
        ELSE [data |-> d, cache |-> c, next |-> "bootstrap"]

\* a faulty loadData that keeps the cached records the remote does not hold
LoadAfterRemoteMerged(d, c, result, writeOk) ==
    LET localData == LoadFromLocalStorage(c)
        merged == IF localData.tag = "val"
                  THEN [x \in DOMAIN result.val \cup DOMAIN localData.val |->
                            IF x \in DOMAIN result.val THEN result.val[x]
                            ELSE localData.val[x]]
                  ELSE result.val
    IN  IF result.tag = "val"
        THEN [data |-> merged, cache |-> SaveToLocalStorage(c, merged, writeOk),
              next |-> "loaded"]
        ELSE LoadLocal(d, c)

\* loadData after the remote fetch returned `result`
LoadAfterRemote(d, c, result, writeOk) ==
    IF result.tag = "val"
    THEN [data |-> result.val, cache |-> SaveToLocalStorage(c, result.val, writeOk),
          next |-> "loaded"]
    ELSE LoadLocal(d, c)

\* a faulty last block that does not assign the content it received
LoadBootstrapUnassigned(d, outcome, m) ==
    IF outcome \in {"served", "nonok"} THEN d ELSE EmptyMap

\* loadData's last block: fetch('data/index.json') answered with `outcome`,
\* `m` being the file's content when it is served
LoadBootstrap(d, outcome, m) ==
    CASE outcome = "served" -> m
      [] outcome = "nonok" -> d
      [] OTHER -> EmptyMap

\* apply the result r of a load step that read (or skipped) the remote
LoadStep(r, log) ==
    /\ data' = r.data
    /\ cache' = r.cache
    /\ loadPc' = r.next
    /\ unhandled' = (unhandled \/ r.next = "failed")
    /\ loadLog' = log

\* init() calls loadData(): up to its first await
LoadStart ==
    /\ UNCHANGED ops
    /\ loadPc = "start"
    /\ IF variant = "static"
       THEN /\ loadPc' = "bootstrap"
            /\ loadLog' = [loadLog EXCEPT !.remote = "skipped", !.cacheBefore = cache]
            /\ UNCHANGED <<data, cache, unhandled>>
       ELSE IF RemoteConfigured
       THEN /\ loadPc' = "remote"
            /\ loadLog' = [loadLog EXCEPT !.cacheBefore = cache]
            /\ UNCHANGED <<data, cache, unhandled>>
       ELSE LoadStep(LoadLocal(data, cache),
                     [loadLog EXCEPT !.remote = "skipped", !.cacheBefore = cache,
                                     !.cacheRead = TRUE])
    /\ UNCHANGED <<cfgVars, viewVars, serverVars, githubToken, remoteVars, saveVars, syncVars, uiVars>>

\* the remote fetch of loadData returns
LoadRemoteResponse ==
    /\ UNCHANGED ops
    /\ loadPc = "remote"
    /\ \E outcome \in Outcomes, writeOk \in BOOLEAN :
        LET result == FetchRemote(outcome)
            served == GetOutcome(outcome) = "served"
        IN  LoadStep(LoadAfterRemote(data, cache, result, writeOk),
                     [loadLog EXCEPT
                        !.remote = GetOutcome(outcome),
                        !.seen = IF ~served THEN Null
                                 ELSE IF variant = "github" THEN ghFile ELSE sheet,
                        !.cacheRead = ~served,
                        !.cacheWritten = IF ~served THEN "no"
                                         ELSE IF writeOk THEN "ok" ELSE "failed"])
    /\ UNCHANGED <<cfgVars, viewVars, serverVars, githubToken, remoteVars, saveVars, syncVars, uiVars>>

\* the fetch of data/index.json returns
LoadBootstrapResponse ==
    /\ UNCHANGED ops
    /\ loadPc = "bootstrap"
    /\ \E outcome \in Outcomes, m \in BootMaps :
        /\ data' = LoadBootstrap(data, outcome, m)
        /\ loadLog' = [loadLog EXCEPT !.bootstrap = outcome,
                                      !.bootContent = IF outcome = "served" THEN Val(m) ELSE Null]
    /\ loadPc' = "loaded"
    /\ UNCHANGED <<cfgVars, viewVars, serverVars, githubToken, cache, unhandled, remoteVars, saveVars, syncVars, uiVars>>

\* init() after loadData returned: render, then bindEvents and initEntryForm;
\* an error raised by the rendering ends init() before any handler is bound
InitFinish ==
    /\ UNCHANGED ops
    /\ loadPc = "loaded"
    /\ loadPc' = IF RenderThrows(data) THEN "crashed" ELSE "ready"
    /\ unhandled' = (unhandled \/ RenderThrows(data))
    /\ loadLog' = NoLoadLog
    /\ UNCHANGED <<cfgVars, viewVars, serverVars, githubToken, data, cache, remoteVars,
                   saveVars, syncVars, uiVars>>

(***************************************************************************)
(* saveEntry                                                               *)
(***************************************************************************)
\* a faulty saveEntry without its token test
SaveEntryCheckTitleOnly(title, token) == IF title = <<>> THEN "no-title" ELSE "go"

\* what saveEntry does before its first request: "no-title" and "no-token" are
\* its two early returns (the token is checked by the github variant only)
SaveEntryCheck(title, token) ==
    IF title = <<>> THEN "no-title"
    ELSE IF variant = "github" /\ token = "" THEN "no-token"
    ELSE "go"

\* a faulty local save that makes the store the saved entry alone
LocalSaveAlone(d, e) == Map1(e.date, StoreEntry(e))

\* this.data[dateStr] = { title, level, content } (sheets variant)
LocalSave(d, e) == Upsert(d, e.date, StoreEntry(e))

\* saveToGithub step 1: sha and currentContent after the GET, or an exception
\* (a rejected fetch, a body that does not parse) that its catch turns into false
SaveGetResult(f, outcome) ==
    CASE outcome = "served" /\ f.exists ->
            [tag |-> "val", sha |-> ShaOf(f), currentContent |-> JsonParse(f.text)]
      [] outcome \in {"rejected", "garbled"} -> Thrown
      [] OTHER -> [tag |-> "val", sha |-> NoSha, currentContent |-> EmptyMap]

\* a faulty step 2 that puts the record into the local store, not the fetched content
GithubMergeLocal(currentContent, e) == Upsert(data, e.date, StoreEntry(e))

\* saveToGithub step 2: currentContent[entryData.date] = { title, level, content }
GithubMerge(currentContent, e) == Upsert(currentContent, e.date, StoreEntry(e))

\* a faulty saveToGithub whose cache write is not guarded: the exception of a
\* failing write reaches the catch of saveToGithub, which returns false
SaveToGithubWriteThrows(putOk, currentContent, d, c, writeOk) ==
    IF putOk
    THEN [data |-> currentContent, cache |-> SaveToLocalStorage(c, currentContent, writeOk),
          success |-> writeOk]
    ELSE [data |-> d, cache |-> c, success |-> FALSE]

\* a faulty saveToGithub that writes the cache before it assigns the store
SaveToGithubCachesFirst(putOk, currentContent, d, c, writeOk) ==
    IF putOk
    THEN [data |-> currentContent, cache |-> SaveToLocalStorage(c, d, writeOk),
          success |-> TRUE]
    ELSE [data |-> d, cache |-> c, success |-> FALSE]

\* a faulty saveToGithub that adopts currentContent before it looks at the answer
SaveToGithubOptimistic(putOk, currentContent, d, c, writeOk) ==
    [data |-> currentContent, cache |-> SaveToLocalStorage(c, currentContent, writeOk),
     success |-> putOk]

\* saveToGithub after the PUT returned: the store and the cache it leaves, and
\* what it returns
SaveToGithubResult(putOk, currentContent, d, c, writeOk) ==
    IF putOk
    THEN [data |-> currentContent, cache |-> SaveToLocalStorage(c, currentContent, writeOk),
          success |-> TRUE]
    ELSE [data |-> d, cache |-> c, success |-> FALSE]

\* a faulty saveEntry that shows success whatever saveToGithub returned
SaveEntryStatusAlways(success) == "success"

\* saveEntry (github): the status shown for what saveToGithub returned
SaveEntryStatus(success) == IF success THEN "success" ELSE "error"

\* saveEntry returns: the status it shows last, and the end of the save in flight
\* (the log of a successful save keeps the dates the store held just before)
SaveEnds(log, result, status) ==
    /\ saveLog' = [log EXCEPT !.result = result,
                              !.keysBefore = IF result = "success" THEN DOMAIN data ELSE {}]
    /\ formStatus' = status
    /\ savePc' = "idle"
    /\ saveCtx' = NoCtx

\* the submit handler calls saveEntry(): up to its first await
SaveEntryStart ==
    /\ ops.saves < MaxSaves
    /\ ops' = [ops EXCEPT !.saves = @ + 1]
    /\ loadPc = "ready"
    /\ variant \in {"sheets", "github"}
    /\ ~saveBtnDisabled
    /\ \E ti \in TitleInputs, lvl \in SaveLevels, c \in ContentInputs, d \in Dates,
          writeOk \in BOOLEAN :
        LET e == [date |-> d, title |-> Trim(ti), level |-> lvl, content |-> c]
            check == SaveEntryCheck(e.title, githubToken)
            log == [requests |-> <<>>, result |-> "pending", push |-> "none",
                    message |-> "none", blank |-> IsBlank(ti), keysBefore |-> {},
                    cacheWritten |-> "no", sha |-> "none"]
        IN  /\ entryData' = e
            /\ CASE check = "no-title" ->
                      /\ SaveEnds(log, "invalid", "error")
                      /\ UNCHANGED <<data, cache, saveBtnDisabled, settingsShown>>
                 [] check = "no-token" ->
                      /\ SaveEnds(log, "no-token", "error")
                      /\ settingsShown' = TRUE
                      /\ UNCHANGED <<data, cache, saveBtnDisabled>>
                 [] check = "go" /\ variant = "github" ->
                      /\ saveLog' = [log EXCEPT !.requests = <<"GET">>]
                      /\ formStatus' = "loading"
                      /\ saveBtnDisabled' = TRUE
                      /\ savePc' = "get"
                      /\ UNCHANGED <<data, cache, settingsShown, saveCtx>>
                 [] check = "go" /\ variant = "sheets" /\ useSheets ->
                      /\ saveLog' = [log EXCEPT !.requests = <<"POST">>]
                      /\ formStatus' = "loading"
                      /\ saveBtnDisabled' = TRUE
                      /\ savePc' = "post"
                      /\ UNCHANGED <<data, cache, settingsShown, saveCtx>>
                 [] OTHER ->
                      \* sheets variant without the backend: "Save to localStorage only"
                      /\ data' = LocalSave(data, e)
                      /\ cache' = SaveToLocalStorage(cache, data', writeOk)
                      /\ SaveEnds([log EXCEPT !.message = "local",
                                               !.cacheWritten = IF writeOk THEN "ok" ELSE "failed"],
                                  "success", "success")
                      /\ saveBtnDisabled' = FALSE
                      /\ UNCHANGED settingsShown
    /\ UNCHANGED <<cfgVars, viewVars, serverVars, githubToken, remoteVars, loadPc, loadLog, syncVars, unhandled>>

\* saveToGithub: the GET returns; the PUT is sent unless the GET threw
SaveGetResponse ==
    /\ UNCHANGED ops
    /\ savePc = "get"
    /\ \E outcome \in Outcomes :
        LET got == SaveGetResult(ghFile, outcome)
        IN  IF got.tag = "throw"
            THEN /\ SaveEnds([saveLog EXCEPT !.push = "unsent"], "failed",
                             SaveEntryStatus(FALSE))
                 /\ saveBtnDisabled' = FALSE
            ELSE /\ saveCtx' = [sha |-> got.sha,
                                currentContent |-> GithubMerge(got.currentContent, entryData)]
                 /\ saveLog' = [saveLog EXCEPT
                                    !.requests = Append(@, "PUT"),
                                    !.sha = IF got.sha = NoSha THEN "empty" ELSE "fetched"]
                 /\ savePc' = "put"
                 /\ UNCHANGED <<formStatus, saveBtnDisabled>>
    /\ UNCHANGED <<cfgVars, viewVars, serverVars, githubToken, data, cache, remoteVars, loadPc, loadLog, entryData,
                   syncVars, settingsShown, unhandled>>

\* saveToGithub: the PUT returns, and saveEntry runs to its end
SavePutResponse ==
    /\ UNCHANGED ops
    /\ savePc = "put"
    /\ \E outcome \in {"served", "rejected", "nonok"}, writeOk \in BOOLEAN :
        LET accepted == outcome = "served" /\ GithubPutAccepted(ghFile, saveCtx.sha)
            \* "stale": the sha fetched is no longer that of the file;
            \* "conflict": no sha was fetched although the file exists
            push == IF accepted THEN "accepted"
                    ELSE IF outcome # "served" THEN outcome
                    ELSE IF saveCtx.sha # NoSha THEN "stale" ELSE "conflict"
            r == SaveToGithubResult(accepted, saveCtx.currentContent, data, cache, writeOk)
            \* renderHeatmap and updateStats run before the success status is
            \* shown and the button is enabled again: an error they raise ends
            \* saveEntry there
            crash == r.success /\ RenderThrows(r.data)
        IN  /\ ghFile' = IF accepted THEN File(JsonStringify(saveCtx.currentContent))
                         ELSE ghFile
            /\ data' = r.data
            /\ cache' = r.cache
            /\ SaveEnds([saveLog EXCEPT !.push = push,
                                        !.message = IF r.success /\ ~crash THEN "github"
                                                    ELSE "none",
                                        !.cacheWritten = IF ~accepted THEN "no"
                                                         ELSE IF writeOk THEN "ok" ELSE "failed"],
                        IF crash THEN "crashed" ELSE IF r.success THEN "success" ELSE "failed",
                        IF crash THEN formStatus ELSE SaveEntryStatus(r.success))
            /\ saveBtnDisabled' = crash
            /\ unhandled' = (unhandled \/ crash)
    /\ UNCHANGED <<cfgVars, viewVars, serverVars, githubToken, sheet, clock, loadPc, loadLog, entryData,
                   syncVars, settingsShown>>

\* saveEntry (sheets): the no-cors POST returns (opaque) or is rejected.  A served
\* POST ran doPost/saveRecord; either way the client stores the entry and reports
\* success, from the try block ("sheets") or after its catch ("local")
SavePostResponse ==
    /\ UNCHANGED ops
    /\ savePc = "post"
    /\ \E outcome \in {"served", "rejected", "nonok"}, writeOk \in BOOLEAN :
        /\ sheet' = IF outcome = "served" THEN SaveRecord(sheet, entryData, clock) ELSE sheet
        /\ data' = LocalSave(data, entryData)
        /\ cache' = SaveToLocalStorage(cache, data', writeOk)
        /\ SaveEnds([saveLog EXCEPT
                        !.push = IF outcome = "served" THEN "accepted" ELSE outcome,
                        !.message = IF outcome = "rejected" THEN "local" ELSE "sheets",
                        !.cacheWritten = IF writeOk THEN "ok" ELSE "failed"],
                    "success", "success")
    /\ saveBtnDisabled' = FALSE
    /\ UNCHANGED <<cfgVars, viewVars, serverVars, githubToken, ghFile, clock, loadPc, loadLog, entryData,
                   syncVars, settingsShown, unhandled>>

(***************************************************************************)
(* forceSync and the settings dialog (github variant)                      *)
(***************************************************************************)
\* #syncBtn is disabled from the start of a forceSync until the timer that
\* follows its end: "cooldown" is a finished forceSync whose timer is pending
SyncBtnDisabled == syncPc # "idle"

\* forceSync up to its await: without a token it reports an error and ends
ForceSync(token) ==
    IF token = ""
    THEN /\ formStatus' = "error"
         /\ syncPc' = "cooldown"
    ELSE /\ syncPc' = "sent"
         /\ UNCHANGED formStatus

\* forceSync after fetchFromGithub returned `githubData`
SyncApply(d, c, githubData, writeOk) ==
    IF githubData.tag = "val"
    THEN [data |-> githubData.val, cache |-> SaveToLocalStorage(c, githubData.val, writeOk)]
    ELSE [data |-> d, cache |-> c]

\* a click on #syncBtn
SyncClick ==
    /\ ops.syncs < MaxSyncs
    /\ ops' = [ops EXCEPT !.syncs = @ + 1]
    /\ loadPc = "ready"
    /\ variant = "github"
    /\ ~SyncBtnDisabled
    /\ ForceSync(githubToken)
    /\ UNCHANGED <<cfgVars, viewVars, serverVars, githubToken, data, cache, remoteVars, loadPc, loadLog, saveVars,
                   syncResp, saveBtnDisabled, settingsShown, unhandled>>

\* the server answers the GET of a forceSync
SyncServe ==
    /\ UNCHANGED ops
    /\ syncPc = "sent"
    /\ \E outcome \in Outcomes : syncResp' = FetchFromGithub(ghFile, outcome)
    /\ syncPc' = "replied"
    /\ UNCHANGED <<cfgVars, viewVars, serverVars, githubToken, data, cache, remoteVars, loadPc, loadLog, saveVars,
                   uiVars, unhandled>>

\* forceSync receives the answer and runs to its end
SyncReceive ==
    /\ UNCHANGED ops
    /\ syncPc = "replied"
    /\ \E writeOk \in BOOLEAN :
        LET r == SyncApply(data, cache, syncResp, writeOk)
        IN  /\ data' = r.data
            /\ cache' = r.cache
    /\ syncPc' = "cooldown"
    /\ syncResp' = Null
    /\ UNCHANGED <<cfgVars, viewVars, serverVars, githubToken, remoteVars, loadPc, loadLog, saveVars,
                   uiVars, unhandled>>

\* the setTimeout of forceSync re-enables #syncBtn
SyncBtnTimeout ==
    /\ UNCHANGED ops
    /\ syncPc = "cooldown"
    /\ syncPc' = "idle"
    /\ UNCHANGED <<cfgVars, viewVars, serverVars, githubToken, data, cache, remoteVars, loadPc, loadLog, saveVars,
                   syncResp, uiVars, unhandled>>

\* a click on #closeSettingsBtn
CloseSettings ==
    /\ UNCHANGED ops
    /\ loadPc = "ready"
    /\ variant = "github"
    /\ settingsShown
    /\ settingsShown' = FALSE
    /\ UNCHANGED <<cfgVars, viewVars, serverVars, githubToken, data, cache, remoteVars, loadPc, loadLog, saveVars,
                   syncVars, formStatus, saveBtnDisabled, unhandled>>

\* the dialog being open (or opened by #settingsBtn for this), a click on
\* #saveSettingsBtn with a token typed in: store it, close the dialog, forceSync
\* (at most one forceSync is in flight in this model)
SaveSettings ==
    /\ ops.syncs < MaxSyncs
    /\ ops' = [ops EXCEPT !.syncs = @ + 1]
    /\ loadPc = "ready"
    /\ variant = "github"
    /\ syncPc \in {"idle", "cooldown"}
    /\ githubToken' = "tok"
    /\ settingsShown' = FALSE
    /\ ForceSync(githubToken')
    /\ UNCHANGED <<cfgVars, viewVars, serverVars, data, cache, remoteVars, loadPc, loadLog, saveVars,
                   syncResp, saveBtnDisabled, unhandled>>

\* the dialog being open (or opened by #settingsBtn for this), a click on
\* #clearTokenBtn, confirmed; the dialog stays open
ClearToken ==
    /\ UNCHANGED ops
    /\ loadPc = "ready"
    /\ variant = "github"
    /\ githubToken # ""
    /\ githubToken' = ""
    /\ settingsShown' = TRUE
    /\ UNCHANGED <<cfgVars, viewVars, serverVars, data, cache, remoteVars, loadPc, loadLog, saveVars,
                   syncVars, formStatus, saveBtnDisabled, unhandled>>

(***************************************************************************)
(* The environment                                                         *)
(***************************************************************************)
\* another session's saveToGithub succeeds: its record is in the remote document
OtherWriter ==
    /\ ops.others < MaxOtherWrites
    /\ ops' = [ops EXCEPT !.others = @ + 1]
    /\ variant = "github"
    /\ \E d \in OtherDates :
        LET content == IF ghFile.exists THEN JsonParse(ghFile.text) ELSE EmptyMap
        IN  ghFile' = File(JsonStringify(Upsert(content, d, OtherRec)))
    /\ ghFile' # ghFile
    /\ UNCHANGED <<cfgVars, viewVars, serverVars, githubToken, data, cache, sheet, clock, loadPc, loadLog, saveVars,
                   syncVars, uiVars, unhandled>>

\* time passes on the Apps Script server
Tick ==
    /\ UNCHANGED ops
    /\ variant = "sheets"
    /\ clock < MaxClock
    /\ clock' = clock + 1
    /\ UNCHANGED <<cfgVars, viewVars, serverVars, githubToken, data, cache, ghFile, sheet, loadPc, loadLog, saveVars,
                   syncVars, uiVars, unhandled>>

Next ==
    \/ LoadStart
    \/ LoadRemoteResponse
    \/ LoadBootstrapResponse
    \/ InitFinish
    \/ SaveEntryStart
    \/ SaveGetResponse
    \/ SavePutResponse
    \/ SavePostResponse
    \/ SyncClick
    \/ SyncServe
    \/ SyncReceive
    \/ SyncBtnTimeout
    \/ CloseSettings
    \/ SaveSettings
    \/ ClearToken
    \/ OtherWriter
    \/ Tick

Spec == Init /\ [][Next]_vars

(***************************************************************************)
(* The Apps Script server with executions that overlap.  The web app runs   *)
(* one execution of doPost per request, several at a time; each call of the *)
(* Spreadsheet service is one step.                                        *)
(***************************************************************************)
\* how many requests an execution serves
MaxPosts == 1

\* the bodies clients post
PostTitles == {<<"a">>, <<"b">>}
Requests ==
    [date : Dates, title : PostTitles, level : SaveLevels, content : ContentInputs]

\* saveRecord's search: the sheet row (1-indexed, the header being row 1) of the
\* first row of allData whose date is `date`, or -1
RowIndexOf(allData, date) ==
    LET hits == {i \in 1..Len(allData) : allData[i].date = date}
    IN  IF hits = {} THEN 0 - 1
        ELSE (CHOOSE i \in hits : \A j \in hits : i <= j) + 1

\* the state of the session while the server alone is looked at
SessionOff ==
    /\ variant = "sheets"
    /\ useSheets = TRUE
    /\ githubToken = ""
    /\ data = EmptyMap
    /\ cache = CacheAbsent
    /\ ghFile = NoFile
    /\ loadPc = "start"
    /\ loadLog = NoLoadLog
    /\ savePc = "idle"
    /\ entryData = NoEntry
    /\ saveCtx = NoCtx
    /\ saveLog = NoSaveLog
    /\ syncPc = "idle"
    /\ syncResp = Null
    /\ formStatus = "none"
    /\ saveBtnDisabled = FALSE
    /\ settingsShown = FALSE
    /\ ops = [saves |-> 0, syncs |-> 0, others |-> 0]
    /\ unhandled = FALSE

InitServer ==
    /\ SessionOff
    /\ ViewOff
    /\ sheet \in InitSheets
    /\ clock = 0
    /\ ServerOff

clientVars ==
    <<variant, useSheets, githubToken, data, cache, ghFile, loadPc, loadLog, savePc,
      entryData, saveCtx, saveLog, syncPc, syncResp, formStatus, saveBtnDisabled,
      settingsShown, ops, unhandled>>

\* doPost(e) and saveRecord(data) up to the search for the row: getValues() is
\* read, the timestamp taken and rowIndex computed
DoPost(i) ==
    /\ execs[i].pc = "idle"
    /\ execs[i].posts < MaxPosts
    /\ \E req \in Requests :
        execs' = [execs EXCEPT ![i] =
                    [pc |-> "found", data |-> req, rowIndex |-> RowIndexOf(sheet, req.date),
                     timestamp |-> clock, posts |-> execs[i].posts + 1]]
    /\ UNCHANGED <<clientVars, viewVars, sheet, clock>>

\* saveRecord from `if (rowIndex > 0)` on: setValues on the row found, or appendRow
SaveRecordWrite(i) ==
    /\ execs[i].pc = "found"
    /\ LET rowData == RowOf(execs[i].data.date, execs[i].data, execs[i].timestamp)
       IN  sheet' = IF execs[i].rowIndex > 0
                    THEN [sheet EXCEPT ![execs[i].rowIndex - 1] = rowData]
                    ELSE Append(sheet, rowData)
    /\ execs' = [execs EXCEPT ![i].pc = "idle"]
    /\ UNCHANGED <<clientVars, viewVars, clock>>

NextServer ==
    \/ \E i \in Execs : DoPost(i)
    \/ \E i \in Execs : SaveRecordWrite(i)
    \/ Tick

SpecServer == InitServer /\ [][NextServer]_vars

(***************************************************************************)
(* The remote document edited outside the application                      *)
(***************************************************************************)
\* data/index.json is a file of a git repository: a commit made by hand or by
\* another tool leaves an entry null
ForeignEdit ==
    /\ ops.others < MaxOtherWrites
    /\ ops' = [ops EXCEPT !.others = @ + 1]
    /\ variant = "github"
    /\ \E d \in OtherDates :
        LET content == IF ghFile.exists THEN JsonParse(ghFile.text) ELSE EmptyMap
        IN  ghFile' = File(JsonStringify(Upsert(content, d, Null)))
    /\ UNCHANGED <<cfgVars, viewVars, serverVars, githubToken, data, cache, sheet, clock, loadPc, loadLog, saveVars,
                   syncVars, uiVars, unhandled>>

NextForeign ==
    \/ Next
    \/ ForeignEdit

\* the session with a remote document that may hold null entries
SpecForeign == Init /\ [][NextForeign]_vars

(***************************************************************************)
(* Properties of loadData                                                  *)
(***************************************************************************)
\* loadData has returned and init() has not yet gone on
LoadReturned == loadPc = "loaded"

\* the record set the remote backend held when it answered loadData
RemoteSeen ==
    IF variant = "github" THEN JsonParse(loadLog.seen.text) ELSE GetAllRecords(loadLog.seen)

\* the cache held a non-empty mapping when loadData started
CacheWasNonEmpty ==
    /\ loadLog.cacheBefore.kind = "json"
    /\ DOMAIN JsonParse(loadLog.cacheBefore.text) # {}

IsDayRecord(r) ==
    /\ {"title", "level", "content"} \subseteq DOMAIN r
    /\ DOMAIN r \subseteq {"title", "level", "content", "updatedAt"}
    /\ r.level \in 0..4

IsRecordStore(m) == DOMAIN m \subseteq Dates /\ \A d \in DOMAIN m : IsDayRecord(m[d])

\* C1 as the specification states it: after a load whose remote fetch succeeded
\* the store is the fetched content, the cache holds that same content, and
\* neither the cache nor data/index.json was read
C1_AsStated ==
    (LoadReturned /\ loadLog.remote = "served") =>
        /\ data = RemoteSeen
        /\ cache = CacheJson(JsonStringify(RemoteSeen))
        /\ ~loadLog.cacheRead
        /\ loadLog.bootstrap = "unset"

\* C1: after a load whose remote fetch succeeded the store is exactly the fetched
\* content and neither the cache nor data/index.json was read; the cache holds
\* that same content when its write went through, and is as it was before the
\* load when the write failed (the failure is swallowed)
C1_RemoteLoad ==
    (LoadReturned /\ loadLog.remote = "served") =>
        /\ data = RemoteSeen
        /\ ~loadLog.cacheRead
        /\ loadLog.bootstrap = "unset"
        /\ loadLog.cacheWritten \in {"ok", "failed"}
        /\ loadLog.cacheWritten = "ok" => cache = CacheJson(JsonStringify(RemoteSeen))
        /\ loadLog.cacheWritten = "failed" => cache = loadLog.cacheBefore

\* a remote load of a non-empty record set over a cache that held another one
C1_Witness ==
    /\ LoadReturned
    /\ loadLog.remote = "served"
    /\ loadLog.cacheWritten = "ok"
    /\ data = Map2(OldB, OldA)
    /\ loadLog.cacheBefore = CacheJson(JsonStringify(Map1(D2, OldB)))
    /\ cache = CacheJson(JsonStringify(data))

\* C2: when the remote is not configured or its fetch fails and the cache holds
\* a non-empty mapping, the store becomes exactly the cached mapping and
\* data/index.json is not fetched; data/index.json is fetched only when the
\* cache is absent, unreadable or empty
C2_CacheFallback ==
    /\ (LoadReturned /\ loadLog.remote \notin {"unset", "served"} /\ CacheWasNonEmpty) =>
            /\ data = JsonParse(loadLog.cacheBefore.text)
            /\ loadLog.bootstrap = "unset"
            /\ cache = loadLog.cacheBefore
    /\ (loadPc = "bootstrap" \/ loadLog.bootstrap # "unset") => ~CacheWasNonEmpty

\* a failed remote fetch answered from a non-empty cache
C2_Witness ==
    /\ LoadReturned
    /\ loadLog.remote \in {"rejected", "nonok", "garbled"}
    /\ loadLog.cacheRead
    /\ data = Map1(D2, OldB)
    /\ loadLog.bootstrap = "unset"

\* C3: whatever the remote fetch, the cache and the bootstrap fetch do, loadData
\* raises nothing, can always go on until it returns, and leaves the store a
\* record store (possibly empty)
C3_LoadNeverThrows ==
    /\ loadPc # "failed"
    /\ loadPc \in {"start", "remote", "bootstrap", "loaded"} => ~unhandled
    /\ loadPc \in {"start", "remote", "bootstrap"} =>
            ENABLED (LoadStart \/ LoadRemoteResponse \/ LoadBootstrapResponse)
    /\ LoadReturned => IsRecordStore(data)

\* every source failed: the remote answer and the bootstrap file did not parse,
\* the cache was malformed
C3_Witness ==
    /\ LoadReturned
    /\ loadLog.remote = "garbled"
    /\ loadLog.cacheBefore = CacheMalformed
    /\ loadLog.bootstrap = "garbled"
    /\ data = EmptyMap

\* C4: a load that got as far as fetching data/index.json (no usable remote, no
\* usable cache) leaves the store empty when that fetch is rejected or answered
\* non-OK, and leaves it exactly the file's content when it succeeds
C4_Bootstrap ==
    LoadReturned =>
        /\ loadLog.bootstrap \in {"rejected", "nonok", "garbled"} => data = EmptyMap
        /\ loadLog.bootstrap = "served" => data = loadLog.bootContent.val

\* unreachable remote, absent cache, data/index.json answered 404
C4_Witness ==
    /\ LoadReturned
    /\ loadLog.remote = "rejected"
    /\ loadLog.cacheBefore = CacheAbsent
    /\ loadLog.bootstrap = "nonok"
    /\ data = EmptyMap

(***************************************************************************)
(* Properties of saveEntry                                                 *)
(***************************************************************************)
\* a step in which saveEntry is called
SaveEntryCalled == ops'.saves # ops.saves

\* a step of saveEntry: its call, or one of its requests returning
SaveStep == SaveEntryCalled \/ savePc' # savePc

\* a step in which saveEntry returns
SaveEntryReturns == SaveStep /\ savePc' = "idle"

\* a step in which saveEntry returns having shown its success message
SaveSucceeds == SaveEntryReturns /\ saveLog'.result = "success"

\* the date and the record of the save a step belongs to
SavedDate == entryData'.date
SavedRecord ==
    [title |-> entryData'.title, level |-> entryData'.level, content |-> entryData'.content]

\* the remote write of the save that returns in this step failed
RemoteWriteFailed ==
    SaveEntryReturns /\ saveLog'.push \in {"rejected", "nonok", "stale", "conflict"}

\* the store entries of the dates other than SavedDate are as before the step
OtherDatesKept ==
    /\ \A d \in DOMAIN data : d \in DOMAIN data'
    /\ \A d \in DOMAIN data' : d \in DOMAIN data \/ d = SavedDate
    /\ \A d \in DOMAIN data \ {SavedDate} : data'[d] = data[d]

\* the record set of the remote document
GithubContent(f) == IF f.exists THEN JsonParse(f.text) ELSE EmptyMap

\* C5: when a save of record r returns successfully, the store's entry for
\* r.date is exactly r's title, level and content, whether an entry existed for
\* that date (none of its fields survives) or not
C5_FullReplace ==
    [][SaveSucceeds =>
        /\ SavedDate \in DOMAIN data'
        /\ data'[SavedDate] = SavedRecord]_vars

\* a successful save over an entry that carried an updatedAt field
C5_Witness ==
    /\ saveLog.result = "success"
    /\ variant = "sheets"
    /\ entryData.date = D2
    /\ loadLog = NoLoadLog
    /\ data = Map2([title |-> <<"p">>, level |-> 0, content |-> "", updatedAt |-> 0],
                   [title |-> <<"a">>, level |-> 3, content |-> "new"])

\* C6 as the specification states it: no step of a save changes or removes the
\* store entry of a date other than the saved one
C6_AsStated == [][SaveStep => OtherDatesKept]_vars

\* C6: a save that does not succeed leaves the store as it is.  A successful
\* save of the sheets variant changes only the store entry of the saved date.
\* A successful save of the github variant replaces the store by the remote
\* document that save fetched, with the saved record put in: the store then
\* equals the remote document, the entries of the other dates being those the
\* document had, whatever the store held for them
C6_SaveFrame ==
    [][SaveStep =>
        /\ ~SaveSucceeds => data' = data
        /\ (SaveSucceeds /\ variant = "sheets") => OtherDatesKept
        /\ (SaveSucceeds /\ variant = "github") =>
                /\ data' = GithubContent(ghFile')
                /\ data' = Upsert(GithubContent(ghFile), SavedDate, SavedRecord)]_vars

\* a successful github save after which the store lacks a date it held before:
\* the store came from the cache (D2), the remote document was empty
C6_Witness ==
    /\ variant = "github"
    /\ saveLog.result = "success"
    /\ entryData.date = D1
    /\ saveLog.keysBefore = {D2}
    /\ DOMAIN data = {D1}
    /\ data = GithubContent(ghFile)

\* C7 as the specification states it: the store entry a successful save wrote
\* carries an updatedAt field
C7_AsStated ==
    [][SaveSucceeds =>
        /\ SavedDate \in DOMAIN data'
        /\ "updatedAt" \in DOMAIN data'[SavedDate]]_vars

\* C7: only the Apps Script server stamps a record.  Every sheet row a save
\* writes is the row of the saved date and carries the server's time of that
\* save as updatedAt; the store entry a successful save writes, and the entry
\* it writes to the GitHub document, carry title, level and content and no
\* updatedAt
C7_ServerStamps ==
    [][/\ SaveSucceeds => DOMAIN data'[SavedDate] = {"title", "level", "content"}
       /\ (SaveSucceeds /\ variant = "github") =>
                DOMAIN GithubContent(ghFile')[SavedDate] = {"title", "level", "content"}
       /\ sheet' # sheet =>
                /\ Len(sheet') >= Len(sheet)
                /\ \E i \in 1..Len(sheet') : sheet'[i] = RowOf(SavedDate, SavedRecord, clock)
                /\ \A i \in 1..Len(sheet) :
                        sheet'[i] # sheet[i] =>
                            sheet'[i] = RowOf(SavedDate, SavedRecord, clock)]_vars

\* a row stamped 0 was overwritten by a save at server time 1, and the store
\* entry of that save has no updatedAt
C7_Witness ==
    /\ variant = "sheets"
    /\ saveLog.result = "success"
    /\ saveLog.push = "accepted"
    /\ clock = 1
    /\ \E i \in 1..Len(sheet) :
            sheet[i] = RowOf(entryData.date, StoreEntry(entryData), 1)
    /\ Len(sheet) = 2
    /\ entryData.date \in DOMAIN data
    /\ "updatedAt" \notin DOMAIN data[entryData.date]

\* C8: when the PUT of saveToGithub is answered with a rejection because the
\* sha sent is not that of the file (stale, or none fetched), the save shows
\* the error status and returns after exactly one GET and one PUT, and neither
\* its GET step nor this step changes the store, the cache or the remote document
C8_StalePush ==
    [][/\ (SaveStep /\ saveLog'.push \in {"stale", "conflict"}) =>
            /\ savePc = "put"
            /\ savePc' = "idle"
            /\ saveLog'.result = "failed"
            /\ formStatus' = "error"
            /\ saveLog'.requests = <<"GET", "PUT">>
            /\ data' = data
            /\ cache' = cache
            /\ ghFile' = ghFile
       /\ (SaveStep /\ savePc = "get") => (data' = data /\ cache' = cache)]_vars

\* a save whose push was rejected as stale: another session wrote the document
\* between the GET and the PUT
C8_Witness ==
    /\ variant = "github"
    /\ saveLog.push = "stale"
    /\ saveLog.result = "failed"
    /\ formStatus = "error"
    /\ savePc = "idle"
    /\ ops.others = 1
    /\ data # GithubContent(ghFile)

C10_BlankTitle ==
    [][(SaveEntryCalled /\ saveLog'.blank) =>
        /\ savePc' = "idle"
        /\ saveLog'.result = "invalid"
        /\ saveLog'.requests = <<>>
        /\ formStatus' = "error"
        /\ data' = data
        /\ cache' = cache
        /\ ghFile' = ghFile
        /\ sheet' = sheet]_vars

\* a save with a blank title was turned down while the store held records
C10_Witness ==
    /\ saveLog.blank
    /\ saveLog.result = "invalid"
    /\ saveLog.requests = <<>>
    /\ formStatus = "error"
    /\ data # EmptyMap

\* C11 as the specification states it: every saveEntry call of the github
\* variant made without a stored token shows the settings dialog
C11_AsStated ==
    [][(SaveEntryCalled /\ variant = "github" /\ githubToken = "") =>
        /\ savePc' = "idle"
        /\ saveLog'.requests = <<>>
        /\ settingsShown'
        /\ data' = data /\ cache' = cache /\ ghFile' = ghFile
        /\ ~saveBtnDisabled']_vars

\* C11: a saveEntry call of the github variant made without a stored token
\* returns at once with the error status: no request is issued, the store, the
\* cache and the remote document are unchanged and the submit button is not
\* disabled.  With a title that is not blank the settings dialog is shown; with
\* a blank title the call is turned down by the title test before the token is
\* looked at, and the dialog is left as it is
C11_NoToken ==
    [][(SaveEntryCalled /\ variant = "github" /\ githubToken = "") =>
        /\ savePc' = "idle"
        /\ saveLog'.requests = <<>>
        /\ formStatus' = "error"
        /\ data' = data /\ cache' = cache /\ ghFile' = ghFile
        /\ ~saveBtnDisabled'
        /\ IF saveLog'.blank
           THEN saveLog'.result = "invalid" /\ settingsShown' = settingsShown
           ELSE saveLog'.result = "no-token" /\ settingsShown']_vars

\* a save with a title was blocked for want of a token, the dialog is open
C11_Witness ==
    /\ variant = "github"
    /\ githubToken = ""
    /\ saveLog.result = "no-token"
    /\ ~saveLog.blank
    /\ saveLog.requests = <<>>
    /\ settingsShown
    /\ ~saveBtnDisabled
    /\ data # EmptyMap

\* C12: a load, a sync or a save that writes the cache ends with the same
\* store and the same reported outcome whether the write goes through or
\* fails; the failing write raises nothing and leaves the cache as it was
C12_CacheWriteFailure ==
    [][/\ (loadPc = "remote" /\ loadLog'.remote = "served") =>
            /\ loadLog'.cacheWritten \in {"ok", "failed"}
            /\ data' = (IF variant = "github" THEN JsonParse(ghFile.text)
                        ELSE GetAllRecords(sheet))
            /\ loadPc' = "loaded"
            /\ unhandled' = unhandled
            /\ cache' = IF loadLog'.cacheWritten = "ok"
                        THEN CacheJson(JsonStringify(data')) ELSE cache
       /\ (syncPc = "replied" /\ syncPc' = "cooldown" /\ syncResp.tag = "val") =>
            /\ data' = syncResp.val
            /\ unhandled' = unhandled
            /\ formStatus' = formStatus
            /\ cache' \in {cache, CacheJson(JsonStringify(data'))}
       /\ (SaveEntryReturns /\ saveLog'.push \in {"none", "accepted"}
                            /\ saveLog'.result \notin {"invalid", "no-token"}) =>
            /\ saveLog'.cacheWritten \in {"ok", "failed"}
            /\ saveLog'.result = "success"
            /\ formStatus' = "success"
            /\ ~saveBtnDisabled'
            /\ data' = (IF variant = "github" THEN saveCtx.currentContent
                        ELSE Upsert(data, SavedDate, SavedRecord))
            /\ unhandled' = unhandled
            /\ cache' = IF saveLog'.cacheWritten = "ok"
                        THEN CacheJson(JsonStringify(data')) ELSE cache]_vars

\* a github save reported success although its cache write failed: the cache
\* is not the store
C12_Witness ==
    /\ variant = "github"
    /\ saveLog.result = "success"
    /\ saveLog.cacheWritten = "failed"
    /\ formStatus = "success"
    /\ ~unhandled
    /\ entryData.date \in DOMAIN data
    /\ cache # CacheJson(JsonStringify(data))

\* what a load that does not reach the remote (none configured, or its fetch
\* fails) makes of the cache c
ReloadFromCache(c) == LoadLocal(EmptyMap, c)

LoadInFlight == loadPc \in {"remote", "bootstrap"}

\* saveEntry is suspended at an await
SaveInFlight == savePc # "idle"

\* forceSync is suspended at its await
SyncInFlight == syncPc \in {"sent", "replied"}

\* C19 as the specification states it: at most one of load, save and sync is
\* in flight, and the submit button is disabled while a save is in flight
C19_AsStated ==
    /\ ~(LoadInFlight /\ SaveInFlight)
    /\ ~(LoadInFlight /\ SyncInFlight)
    /\ ~(SaveInFlight /\ SyncInFlight)
    /\ SaveInFlight => saveBtnDisabled

\* C20: saveToGithub issues a GET, then builds the content to push from what
\* that GET returned (the fetched document and its sha; the empty mapping and
\* no sha when the answer is not OK) with the saved record put in, leaving the
\* store alone, then issues exactly one PUT carrying that sha; a PUT that
\* changes the remote document leaves every record of another date as it was
C20_ReadModifyWrite ==
    [][/\ (SaveStep /\ savePc' = "get") => saveLog'.requests = <<"GET">>
       /\ (SaveStep /\ savePc = "get" /\ savePc' = "put") =>
            /\ saveLog'.requests = <<"GET", "PUT">>
            /\ data' = data /\ ghFile' = ghFile
            /\ saveCtx'.sha \in {ShaOf(ghFile), NoSha}
            /\ saveCtx'.currentContent =
                    Upsert(IF saveCtx'.sha # NoSha THEN JsonParse(ghFile.text) ELSE EmptyMap,
                           SavedDate, SavedRecord)
       /\ (SaveStep /\ savePc = "put") =>
            /\ savePc' = "idle"
            /\ saveLog'.requests = <<"GET", "PUT">>
            /\ ghFile' # ghFile =>
                    /\ saveCtx.sha = ShaOf(ghFile)
                    /\ ghFile' = File(JsonStringify(saveCtx.currentContent))
                    /\ GithubContent(ghFile') =
                            Upsert(GithubContent(ghFile), SavedDate, SavedRecord)
       /\ (SaveStep /\ savePc = "get" /\ savePc' = "idle") =>
            /\ saveLog'.requests = <<"GET">>
            /\ ghFile' = ghFile]_vars

\* the PUT of a save is about to go out with the sha of the fetched document,
\* whose content is not that of the store
C20_Witness ==
    /\ savePc = "put"
    /\ saveCtx.sha # NoSha
    /\ saveCtx.sha = ShaOf(ghFile)
    /\ saveLog.requests = <<"GET", "PUT">>
    /\ saveCtx.currentContent # Upsert(data, entryData.date, StoreEntry(entryData))
    /\ saveCtx.currentContent =
            Upsert(GithubContent(ghFile), entryData.date, StoreEntry(entryData))

(***************************************************************************)
(* Two writers of the remote document                                      *)
(***************************************************************************)
\* the PUT of the session's save returns in this step, and the document is not
\* the one whose sha it carries: another writer's save came in between, or the
\* GET was not answered with the document
PushAfterOtherWrite ==
    /\ SaveStep
    /\ savePc = "put"
    /\ saveCtx.sha # ShaOf(ghFile)

\* C21 as the specification states it: the push of the writer that read the
\* document before the other writer's save overwrites the document, and that
\* writer is told nothing
C21_AsStated ==
    [][(PushAfterOtherWrite /\ saveLog'.push = "stale") =>
            /\ ghFile' = File(JsonStringify(saveCtx.currentContent))
            /\ formStatus' = "success"]_vars

\* C21: the push of the writer that read the document before the other
\* writer's save is rejected: the remote document stays as the other writer
\* left it, the store and the cache are unchanged, and the save ends with the
\* error status
C21_StaleWriterLoses ==
    [][PushAfterOtherWrite =>
            /\ ghFile' = ghFile
            /\ data' = data
            /\ cache' = cache
            /\ saveLog'.result = "failed"
            /\ formStatus' = "error"]_vars

\* the session saved D1 while another writer saved D2: the document holds the
\* other writer's record and not the session's, whose save showed an error
C21_Witness ==
    /\ variant = "github"
    /\ ops.others = 1
    /\ savePc = "idle"
    /\ saveLog.push = "stale"
    /\ formStatus = "error"
    /\ entryData.date = D1
    /\ D2 \in DOMAIN GithubContent(ghFile)
    /\ GithubContent(ghFile)[D2] = OtherRec
    /\ \/ D1 \notin DOMAIN GithubContent(ghFile)
       \/ GithubContent(ghFile)[D1] # StoreEntry(entryData)

(***************************************************************************)
(* A save and a forceSync in flight together                               *)
(***************************************************************************)
\* forceSync receives the answer to its fetch in this step
SyncReturns == syncPc = "replied" /\ syncPc' = "cooldown"

\* the latest save succeeded, and the store and the remote document hold its record
SavedRecordStands ==
    /\ savePc = "idle"
    /\ saveLog.result = "success"
    /\ entryData.date \in DOMAIN data
    /\ data[entryData.date] = StoreEntry(entryData)
    /\ entryData.date \in DOMAIN GithubContent(ghFile)
    /\ GithubContent(ghFile)[entryData.date] = StoreEntry(entryData)

\* the cache holds the record of the latest save
CacheHoldsSaved(c) ==
    /\ LoadFromLocalStorage(c).tag = "val"
    /\ entryData.date \in DOMAIN LoadFromLocalStorage(c).val
    /\ LoadFromLocalStorage(c).val[entryData.date] = StoreEntry(entryData)

\* C26 as stated: a forceSync that returns after a save succeeded leaves the
\* record of that save in the store, and in the cache when the cache held it
C26_AsStated ==
    [][(SyncReturns /\ SavedRecordStands) =>
            /\ entryData.date \in DOMAIN data'
            /\ data'[entryData.date] = StoreEntry(entryData)
            /\ CacheHoldsSaved(cache) => CacheHoldsSaved(cache')]_vars

(***************************************************************************)
(* The records of the other dates in the remote document                   *)
(***************************************************************************)
\* C28: a save of the github variant that returns with success leaves every
\* record of another date in the remote document as it was; a push built from
\* the empty mapping and sent without a sha (the GET was not answered with the
\* document) succeeds only when there is no document, and fails, leaving the
\* document alone, when there is one
C28_RemoteRecordsKept ==
    [][/\ (SaveSucceeds /\ variant = "github") =>
            /\ \A d \in DOMAIN GithubContent(ghFile) \ {SavedDate} :
                    /\ d \in DOMAIN GithubContent(ghFile')
                    /\ GithubContent(ghFile')[d] = GithubContent(ghFile)[d]
            /\ saveLog'.sha = "empty" =>
                    /\ ~ghFile.exists
                    /\ GithubContent(ghFile') = Map1(SavedDate, SavedRecord)
       /\ (SaveStep /\ savePc = "put" /\ saveCtx.sha = NoSha /\ ghFile.exists) =>
            /\ saveLog'.result = "failed"
            /\ ghFile' = ghFile]_vars

\* a save whose GET was answered 404 has created the document
C28_Witness ==
    /\ variant = "github"
    /\ savePc = "idle"
    /\ saveLog.result = "success"
    /\ saveLog.sha = "empty"
    /\ saveLog.push = "accepted"
    /\ GithubContent(ghFile) = Map1(entryData.date, StoreEntry(entryData))

(***************************************************************************)
(* The cache and the store                                                 *)
(***************************************************************************)
\* the cache holds the JSON text of the store
CacheIsStore(c, d) == LoadFromLocalStorage(c) = Val(d)

C24_AsStated ==
    \A i, j \in 1..Len(sheet) : sheet[i].date = sheet[j].date => i = j

(***************************************************************************)
(* The submit button                                                       *)
(***************************************************************************)
\* C30 as stated: the submit button is disabled only while a save is in
\* flight; every save that disabled it has enabled it again when it ends
C30_AsStated == saveBtnDisabled => SaveInFlight

(***************************************************************************)
(* The load that follows a save                                            *)
(***************************************************************************)
\* the stores loadData may return when the page is loaded again in the current
\* state of the cache and of the remote backend: its remote fetch with every
\* outcome, then the cache, then data/index.json with every outcome
NextLoads ==
    LET first == IF RemoteConfigured
                 THEN {LoadAfterRemote(EmptyMap, cache, FetchRemote(o), w) :
                            o \in Outcomes, w \in BOOLEAN}
                 ELSE {LoadLocal(EmptyMap, cache)}
    IN  UNION {IF r.next = "bootstrap"
               THEN {LoadBootstrap(r.data, o, m) : o \in Outcomes, m \in BootMaps}
               ELSE {r.data} : r \in first}

\* store d holds the record of the save this step belongs to
HoldsSaved(d) ==
    /\ SavedDate \in DOMAIN d
    /\ d[SavedDate].title = SavedRecord.title
    /\ d[SavedDate].level = SavedRecord.level
    /\ d[SavedDate].content = SavedRecord.content

\* C27 as stated: when saveEntry returns having shown its success status,
\* every store the next loadData may return holds the saved record
C27_AsStated ==
    [][SaveSucceeds => \A d \in NextLoads' : HoldsSaved(d)]_vars

(***************************************************************************)
(* Dates.  A JavaScript Date at local midnight is the number of its         *)
(* calendar day, counted from 1970-01-01 (a Thursday).                      *)
(***************************************************************************)
\* the year, month (1..12) and day of day number n in the Gregorian calendar
CivilFromDays(n) ==
    LET z == n + 719468
        era == z \div 146097
        doe == z - era * 146097
        yoe == (doe - doe \div 1460 + doe \div 36524 - doe \div 146096) \div 365
        doy == doe - (365 * yoe + yoe \div 4 - yoe \div 100)
        mp == (5 * doy + 2) \div 153
        m == IF mp < 10 THEN mp + 3 ELSE mp - 9
    IN  [year |-> yoe + era * 400 + (IF m <= 2 THEN 1 ELSE 0),
         month |-> m,
         day |-> doy - (153 * mp + 2) \div 5 + 1]

\* the day number of year y, month m (1..12), day d
DaysFromCivil(y, m, d) ==
    LET yy == IF m <= 2 THEN y - 1 ELSE y
        era == yy \div 400
        yoe == yy - era * 400
        doy == (153 * (IF m > 2 THEN m - 3 ELSE m + 9) + 2) \div 5 + d - 1
    IN  era * 146097 + yoe * 365 + yoe \div 4 - yoe \div 100 + doy - 719468

\* new Date(year, monthIndex, day)
NewDate(year, monthIndex, day) == DaysFromCivil(year, monthIndex + 1, day)

GetFullYear(n) == CivilFromDays(n).year
GetMonth(n) == CivilFromDays(n).month - 1
GetDate(n) == CivilFromDays(n).day
\* the weekday, 0 being Sunday
GetDay(n) == (n + 4) % 7

Digits == <<"0", "1", "2", "3", "4", "5", "6", "7", "8", "9">>
DigitOf(c) == CHOOSE i \in 0..9 : Digits[i + 1] = c

\* String(n).padStart(2, '0') of n in 0..99
PadStart2(n) == <<Digits[(n \div 10) + 1], Digits[(n % 10) + 1]>>

\* formatDate: `${year}-${month}-${day}`, month and day padded to two digits
FormatDate(n) ==
    LET c == CivilFromDays(n)
    IN  <<Digits[(c.year \div 1000) + 1], Digits[((c.year \div 100) % 10) + 1],
          Digits[((c.year \div 10) % 10) + 1], Digits[(c.year % 10) + 1], "-">>
        \o PadStart2(c.month) \o <<"-">> \o PadStart2(c.day)

\* the calendar day a key "YYYY-MM-DD" names
KeyDay(key) ==
    LET y == 1000 * DigitOf(key[1]) + 100 * DigitOf(key[2]) + 10 * DigitOf(key[3])
             + DigitOf(key[4])
        m == 10 * DigitOf(key[6]) + DigitOf(key[7])
        d == 10 * DigitOf(key[9]) + DigitOf(key[10])
    IN  DaysFromCivil(y, m, d)

\* new Date("YYYY-MM-DD"): midnight UTC of that date, which is the day before
\* in local time when the zone is west of Greenwich
ParseDate(key) == KeyDay(key) - (IF zone.west THEN 1 ELSE 0)

\* the hours of a day (times are counted in hours, 1000 * 60 * 60 ms)
DayLength == 24

\* daylight saving time is in force on day n (April to September in a northern
\* zone, October to March in a southern one)
DstInForce(n) ==
    LET summer == CivilFromDays(n).month \in 4..9
    IN  \/ zone.dst = "north" /\ summer
        \/ zone.dst = "south" /\ ~summer

\* getTime() of local midnight of day n, up to the zone's constant offset
GetTime(n) == DayLength * n - (IF DstInForce(n) THEN 1 ELSE 0)

\* Math.ceil(x / k) for k > 0
CeilDiv(x, k) == IF x >= 0 THEN (x + k - 1) \div k ELSE 0 - ((0 - x) \div k)

Max(a, b) == IF a >= b THEN a ELSE b
Min(a, b) == IF a <= b THEN a ELSE b

(***************************************************************************)
(* The views: updateProgress, renderHeatmap, updateStats                   *)
(***************************************************************************)
\* this.startYear, this.goalStartDate, this.goalEndDate
StartYear == 2026
GoalStartDate == NewDate(2026, 0, 1)
GoalEndDate == NewDate(2029, 11, 31)

\* a percentage is the fraction num / den (den > 0); p >= k and p <= q
PctAtLeast(p, k) == p.num >= k * p.den
PctLeq(p, q) == p.num * q.den <= q.num * p.den

\* a faulty updateRocketPhase whose comparisons are strict
UpdateRocketPhaseStrict(percentage) ==
    IF ~PctLeq(percentage, [num |-> 80, den |-> 1]) THEN 5
    ELSE IF ~PctLeq(percentage, [num |-> 60, den |-> 1]) THEN 4
    ELSE IF ~PctLeq(percentage, [num |-> 40, den |-> 1]) THEN 3
    ELSE IF ~PctLeq(percentage, [num |-> 20, den |-> 1]) THEN 2
    ELSE 1

\* updateRocketPhase: the phase of a percentage
UpdateRocketPhase(percentage) ==
    IF PctAtLeast(percentage, 80) THEN 5
    ELSE IF PctAtLeast(percentage, 60) THEN 4
    ELSE IF PctAtLeast(percentage, 40) THEN 3
    ELSE IF PctAtLeast(percentage, 20) THEN 2
    ELSE 1

\* a faulty updateProgress that counts today among the elapsed days
ComputeProgressInclusive(t) ==
    LET totalDays == CeilDiv(GetTime(GoalEndDate) - GetTime(GoalStartDate), DayLength)
        elapsedDays == Max(0, CeilDiv(GetTime(t) - GetTime(GoalStartDate), DayLength) + 1)
        remainingDays == Max(0, CeilDiv(GetTime(GoalEndDate) - GetTime(t), DayLength))
    IN  [totalDays |-> totalDays, elapsedDays |-> elapsedDays,
         remainingDays |-> remainingDays,
         percentage |-> [num |-> Min(100 * totalDays, Max(0, elapsedDays * 100)),
                         den |-> totalDays]]

\* a faulty updateProgress whose percentage is not clamped
ComputeProgressUnclamped(t) ==
    LET totalDays == CeilDiv(GetTime(GoalEndDate) - GetTime(GoalStartDate), DayLength)
        elapsedDays == Max(0, CeilDiv(GetTime(t) - GetTime(GoalStartDate), DayLength))
        remainingDays == Max(0, CeilDiv(GetTime(GoalEndDate) - GetTime(t), DayLength))
    IN  [totalDays |-> totalDays, elapsedDays |-> elapsedDays,
         remainingDays |-> remainingDays,
         percentage |-> [num |-> elapsedDays * 100, den |-> totalDays]]

\* updateProgress up to `percentage`, for today = t
ComputeProgress(t) ==
    LET totalDays == CeilDiv(GetTime(GoalEndDate) - GetTime(GoalStartDate), DayLength)
        elapsedDays == Max(0, CeilDiv(GetTime(t) - GetTime(GoalStartDate), DayLength))
        remainingDays == Max(0, CeilDiv(GetTime(GoalEndDate) - GetTime(t), DayLength))
    IN  [totalDays |-> totalDays, elapsedDays |-> elapsedDays,
         remainingDays |-> remainingDays,
         percentage |-> [num |-> Min(100 * totalDays, Max(0, elapsedDays * 100)),
                         den |-> totalDays]]

\* the variants whose updateProgress ends with updateRocketPhase
HasRocket == variant \in {"static", "sheets"}

\* updateProgress: what it displays for today = t (phase 0: no rocket)
UpdateProgress(t) ==
    LET p == ComputeProgress(t)
    IN  [totalDays |-> p.totalDays, elapsedDays |-> p.elapsedDays,
         remainingDays |-> p.remainingDays, percentage |-> p.percentage,
         phase |-> IF HasRocket THEN UpdateRocketPhase(p.percentage) ELSE 0]

\* a faulty test that takes every day with a record for an active day
IsPresent(d, k) == k \in DOMAIN d

\* v.level > 0 for the entry of key k
IsActive(d, k) == k \in DOMAIN d /\ d[k].level > 0

\* a faulty streak that counts the active days before checkDate
RECURSIVE StreakBefore(_, _)
StreakBefore(d, checkDate) ==
    IF FormatDate(checkDate - 1) \in DOMAIN d /\ d[FormatDate(checkDate - 1)].level > 0
    THEN 1 + StreakBefore(d, checkDate - 1)
    ELSE 0

\* the streak loop of updateStats, from checkDate backwards
RECURSIVE StreakFrom(_, _)
StreakFrom(d, checkDate) ==
    IF IsActive(d, FormatDate(checkDate)) THEN 1 + StreakFrom(d, checkDate - 1) ELSE 0

\* updateStats: what it displays for store d and today = t
UpdateStats(d, t) ==
    [totalDays |-> Cardinality({k \in DOMAIN d : d[k].level > 0}),
     currentStreak |-> StreakFrom(d, t),
     thisMonth |-> Cardinality({k \in DOMAIN d :
                        /\ GetMonth(ParseDate(k)) = GetMonth(t)
                        /\ GetFullYear(ParseDate(k)) = GetFullYear(t)
                        /\ d[k].level > 0})]

\* formatTooltip without the date: the title or the default text of a day with
\* a record, the text of a day without
FormatTooltip(dayData) ==
    IF dayData.level > 0
    THEN (IF "title" \in DOMAIN dayData /\ dayData.title # <<>>
          THEN dayData.title ELSE <<"has record">>)
    ELSE <<"no record">>

\* a faulty cell that is flagged only when it lies before the display year
HeatmapCellLeadingOnly(d, n, t, year) ==
    LET dateStr == FormatDate(n)
        dayData == IF dateStr \in DOMAIN d THEN d[dateStr] ELSE [level |-> 0]
    IN  [date |-> dateStr, level |-> dayData.level, future |-> n > t,
         hidden |-> n < NewDate(year, 0, 1), tooltip |-> FormatTooltip(dayData)]

\* the cell renderHeatmap appends for currentDate = n
HeatmapCell(d, n, t, year) ==
    LET dateStr == FormatDate(n)
        dayData == IF dateStr \in DOMAIN d THEN d[dateStr] ELSE [level |-> 0]
    IN  [date |-> dateStr, level |-> dayData.level, future |-> n > t,
         hidden |-> GetFullYear(n) # year, tooltip |-> FormatTooltip(dayData)]

\* a faulty loop condition that stops right after the last day of the year
HeatmapGoesOnInYear(currentDate, yearEnd) == currentDate <= yearEnd

\* a faulty loop condition that closes the last week at a Monday
HeatmapGoesOnToMonday(currentDate, yearEnd) ==
    currentDate <= yearEnd \/ GetDay(currentDate) # 1

\* the condition of the while loop of renderHeatmap
HeatmapGoesOn(currentDate, yearEnd) == currentDate <= yearEnd \/ GetDay(currentDate) # 0

\* the value of currentDate at which that loop stops: the first day from
\* startDate on for which the condition fails (it fails within a week of yearEnd)
HeatmapEnd(startDate, yearEnd) ==
    LET stops == {e \in startDate..(yearEnd + 7) : ~HeatmapGoesOn(e, yearEnd)}
    IN  CHOOSE e \in stops : \A x \in stops : e <= x

\* renderHeatmap: the cells of display year `year`, in the order appended
RenderHeatmap(d, year, t) ==
    LET yearStart == NewDate(year, 0, 1)
        yearEnd == NewDate(year, 11, 31)
        startDate == yearStart - GetDay(yearStart)
        endDate == HeatmapEnd(startDate, yearEnd)
    IN  [i \in 1..(endDate - startDate) |-> HeatmapCell(d, startDate + i - 1, t, year)]

(***************************************************************************)
(* The specification of the views: init() from the return of loadData on,   *)
(* and the year buttons, for a store and a day that do not change           *)
(***************************************************************************)
\* the stores hold records for the days within MaxWindow days of the goal's
\* start; today ranges one day further on both sides
MaxWindow == 1
\* for the progress bar, today ranges over the days within MaxMargin days of the
\* goal's start, its end, the four phase thresholds and two changes of clock
MaxMargin == 2

WindowDays == (GoalStartDate - MaxWindow)..(GoalStartDate + MaxWindow)
WindowTodays == (GoalStartDate - MaxWindow - 1)..(GoalStartDate + MaxWindow + 1)

\* a record of level 0 and one of level 3
ViewRecords ==
    {[title |-> <<>>, level |-> 0, content |-> ""],
     [title |-> <<"a">>, level |-> 3, content |-> "new"]}

\* every store over the days of the window
ViewStores ==
    UNION {[{FormatDate(n) : n \in days} -> ViewRecords] : days \in SUBSET WindowDays}

ProgressMarks ==
    {GoalStartDate + (k * (GoalEndDate - GoalStartDate)) \div 5 : k \in 0..5}
        \cup {NewDate(2026, 3, 1), NewDate(2026, 9, 1)}
ProgressTodays == {m + i : m \in ProgressMarks, i \in (0 - MaxMargin)..MaxMargin}

DstRules == {"none", "north", "south"}

\* for the heatmap of the later years, today is the last day of 2033, a year
\* that ends on a Saturday
LateTodays == {NewDate(2033, 11, 31)}

sessionVars ==
    <<variant, useSheets, githubToken, data, cache, ghFile, sheet, clock, loadPc,
      loadLog, savePc, entryData, saveCtx, saveLog, syncPc, syncResp,
      formStatus, saveBtnDisabled, settingsShown, ops, unhandled, execs>>

\* loadData has returned with a store; the views are still empty
InitView ==
    /\ \/ /\ variant = "github"
          /\ data \in ViewStores
          /\ today \in WindowTodays
          /\ zone \in [west : BOOLEAN, dst : {"none"}]
       \/ /\ variant \in {"sheets", "github"}
          /\ data = EmptyMap
          /\ today \in ProgressTodays
          /\ zone \in [west : {FALSE}, dst : DstRules]
       \/ /\ variant = "github"
          /\ data = EmptyMap
          /\ today \in LateTodays
          /\ zone = NoZone
    /\ useSheets = FALSE
    /\ githubToken = ""
    /\ cache = CacheAbsent
    /\ ghFile = NoFile
    /\ sheet = <<>>
    /\ clock = 0
    /\ loadPc = "loaded"
    /\ loadLog = NoLoadLog
    /\ savePc = "idle"
    /\ entryData = NoEntry
    /\ saveCtx = NoCtx
    /\ saveLog = NoSaveLog
    /\ syncPc = "idle"
    /\ syncResp = Null
    /\ formStatus = "none"
    /\ saveBtnDisabled = FALSE
    /\ settingsShown = FALSE
    /\ ops = [saves |-> 0, syncs |-> 0, others |-> 0]
    /\ unhandled = FALSE
    /\ ServerOff
    /\ currentYear = GetFullYear(today)
    /\ viewPc = "init"
    /\ progress = NoProgress
    /\ grid = <<>>
    /\ stats = NoStats

\* init() after `await this.loadData()`: updateProgress, renderHeatmap,
\* updateStats, then the handlers are bound
InitRender ==
    /\ viewPc = "init"
    /\ progress' = UpdateProgress(today)
    /\ grid' = RenderHeatmap(data, currentYear, today)
    /\ stats' = UpdateStats(data, today)
    /\ viewPc' = "ready"
    /\ UNCHANGED <<sessionVars, today, zone, currentYear>>

\* a click on #prevYear
PrevYear ==
    /\ viewPc = "ready"
    /\ currentYear > StartYear
    /\ currentYear' = currentYear - 1
    /\ grid' = RenderHeatmap(data, currentYear', today)
    /\ UNCHANGED <<sessionVars, today, zone, viewPc, progress, stats>>

\* a click on #nextYear
NextYear ==
    /\ viewPc = "ready"
    /\ currentYear < GetFullYear(today)
    /\ currentYear' = currentYear + 1
    /\ grid' = RenderHeatmap(data, currentYear', today)
    /\ UNCHANGED <<sessionVars, today, zone, viewPc, progress, stats>>

NextView ==
    \/ InitRender
    \/ PrevYear
    \/ NextYear

SpecView == InitView /\ [][NextView]_vars

(***************************************************************************)
(* Properties of the views                                                 *)
(***************************************************************************)
\* the views have been rendered
Rendered == viewPc = "ready"

\* C14: whatever the display year, the grid renderHeatmap built has a number
\* of cells that is a positive multiple of 7, and its first cell is a Sunday
C14_WholeWeeks ==
    Rendered =>
        /\ Len(grid) > 0
        /\ Len(grid) % 7 = 0
        /\ GetDay(KeyDay(grid[1].date)) = 0

\* the grid of 2028, a leap year that starts on a Saturday: 54 weeks
C14_Witness ==
    /\ Rendered
    /\ currentYear = 2028
    /\ Len(grid) = 378
    /\ grid[1].date = FormatDate(NewDate(2027, 11, 26))

\* the records of level 0 a store may hold
ZeroRecords ==
    {[title |-> <<>>, level |-> 0, content |-> ""],
     [title |-> <<"a">>, level |-> 0, content |-> "new"]}

\* C15: for every day D the store has no record of, the statistics and the
\* grid displayed are those of the store that holds a record of level 0 for D
C15_ZeroIsAbsent ==
    Rendered =>
        \A n \in WindowTodays, r \in ZeroRecords :
            FormatDate(n) \notin DOMAIN data =>
                /\ UpdateStats(Upsert(data, FormatDate(n), r), today) = stats
                /\ RenderHeatmap(Upsert(data, FormatDate(n), r), currentYear, today) = grid

\* today has no record, the two days before have one of level 3 and one of level 0
C15_Witness ==
    /\ Rendered
    /\ today = GoalStartDate + 1
    /\ FormatDate(today) \notin DOMAIN data
    /\ FormatDate(today - 1) \in DOMAIN data /\ data[FormatDate(today - 1)].level = 3
    /\ FormatDate(today - 2) \in DOMAIN data /\ data[FormatDate(today - 2)].level = 0
    /\ stats = [totalDays |-> 1, currentStreak |-> 0, thisMonth |-> 1]

\* day n has a record of level > 0 in the store
ActiveDay(n) == FormatDate(n) \in DOMAIN data /\ data[FormatDate(n)].level > 0

\* the length of the longest run of active days that ends at today
RunEndingToday ==
    CHOOSE k \in 0..Cardinality(DOMAIN data) :
        /\ \A i \in 0..(k - 1) : ActiveDay(today - i)
        /\ ~ActiveDay(today - k)

\* the store of the example: 2026-01-01 of level 3, 2026-01-02 of level 0
ExampleStore ==
    [k \in {FormatDate(GoalStartDate), FormatDate(GoalStartDate + 1)} |->
        IF k = FormatDate(GoalStartDate)
        THEN [title |-> <<"a">>, level |-> 3, content |-> "new"]
        ELSE [title |-> <<>>, level |-> 0, content |-> ""]]

\* C16: the streak displayed is the length of the longest run of consecutive
\* days ending at today that all have a record of level > 0; it is 0 when
\* today has no record or one of level 0; for the example store it is 0 on
\* 2026-01-02 and 1 on 2026-01-01
C16_Streak ==
    Rendered =>
        /\ stats.currentStreak = RunEndingToday
        /\ ~ActiveDay(today) => stats.currentStreak = 0
        /\ (data = ExampleStore /\ today = GoalStartDate + 1) => stats.currentStreak = 0
        /\ (data = ExampleStore /\ today = GoalStartDate) => stats.currentStreak = 1

\* a streak of three days across the turn of the year
C16_Witness ==
    /\ Rendered
    /\ today = GoalStartDate + 1
    /\ \A i \in 0..2 : ActiveDay(today - i)
    /\ stats.currentStreak = 3

\* C17: the percentage displayed is 0 on every day before the goal's start,
\* 100 on every day from the goal's end on, and never decreases from one day
\* to a later one
C17_Percentage ==
    Rendered =>
        /\ today < GoalStartDate => progress.percentage.num = 0
        /\ today >= GoalEndDate => progress.percentage.num = 100 * progress.percentage.den
        /\ progress.percentage.den > 0
        /\ PctLeq(progress.percentage, ComputeProgress(today + 1).percentage)
        /\ \A t \in ProgressTodays :
                t >= today => PctLeq(progress.percentage, ComputeProgress(t).percentage)

\* the day after the goal's end, in a zone whose clocks change
C17_Witness ==
    /\ Rendered
    /\ today = GoalEndDate + 1
    /\ zone.dst = "south"
    /\ progress.elapsedDays > progress.totalDays
    /\ progress.percentage = [num |-> 146000, den |-> 1460]

\* C18: where updateProgress sets the rocket's phase, the phase is 1 below 20
\* percent, 2 from 20, 3 from 40, 4 from 60 and 5 from 80 on: one more than the
\* number of thresholds the percentage has reached, always within 1..5
C18_Phase ==
    (Rendered /\ HasRocket) =>
        /\ progress.phase \in 1..5
        /\ progress.phase =
                1 + Cardinality({k \in {20, 40, 60, 80} :
                                    progress.percentage.num >= k * progress.percentage.den})

\* the day the percentage is exactly 20: phase 2
C18_Witness ==
    /\ Rendered
    /\ HasRocket
    /\ progress.percentage.num = 20 * progress.percentage.den
    /\ progress.phase = 2

\* the first and the last day of the display year, and the days of the first
\* and the last cell of the grid
YearStart == NewDate(currentYear, 0, 1)
YearEnd == NewDate(currentYear, 11, 31)
GridFirst == KeyDay(grid[1].date)
GridLast == KeyDay(grid[Len(grid)].date)

\* C22: the grid of the display year is a run of consecutive days, one cell a
\* day, from the last Sunday on or before Jan 1 to the day before the first
\* Sunday after Dec 31, so it holds every day of the year exactly once; the
\* cells flagged as outside the display year are those of the days not in it
C22_ConsecutiveDays ==
    Rendered =>
        /\ \A i \in 1..Len(grid) : KeyDay(grid[i].date) = GridFirst + i - 1
        /\ GetDay(GridFirst) = 0
        /\ GridFirst <= YearStart /\ YearStart - GridFirst < 7
        /\ GetDay(GridLast + 1) = 0
        /\ GridLast + 1 > YearEnd /\ GridLast + 1 - YearEnd <= 7
        /\ \A i \in 1..Len(grid) :
                grid[i].hidden <=> ~(KeyDay(grid[i].date) \in YearStart..YearEnd)

\* the grid of 2026: from Sunday 2025-12-28 to Saturday 2027-01-02
C22_Witness ==
    /\ Rendered
    /\ currentYear = 2026
    /\ Len(grid) = 371
    /\ grid[1].date = FormatDate(NewDate(2025, 11, 28))
    /\ grid[4].hidden /\ ~grid[5].hidden
    /\ ~grid[369].hidden /\ grid[370].hidden
    /\ grid[371].date = FormatDate(NewDate(2027, 0, 2))

\* the grid has cells of the next calendar year
GridExtends == GridLast > YearEnd

\* the cells after Dec 31 of the display year are all flagged as outside it
TrailingHidden ==
    \A i \in 1..Len(grid) : KeyDay(grid[i].date) > YearEnd => grid[i].hidden

\* C23 as the specification states it: when Dec 31 of the display year is not
\* a Sunday the grid extends into the next year, its trailing cells flagged
C23_AsStated ==
    (Rendered /\ GetDay(YearEnd) # 0) => (GridExtends /\ TrailingHidden)

\* C23: the grid extends into the next calendar year exactly when Dec 31 of
\* the display year is not a Saturday (by six days when it is a Sunday), and
\* every trailing cell is flagged as outside the display year
C23_TrailingCells ==
    Rendered =>
        /\ GridExtends <=> GetDay(YearEnd) # 6
        /\ GridLast - YearEnd = (6 - GetDay(YearEnd))
        /\ TrailingHidden

\* the grid of 2028, whose Dec 31 is a Sunday: six cells of January 2029
C23_Witness ==
    /\ Rendered
    /\ currentYear = 2028
    /\ GetDay(YearEnd) = 0
    /\ GridLast = YearEnd + 6
    /\ \A i \in (Len(grid) - 5)..Len(grid) : grid[i].hidden
    /\ ~grid[Len(grid) - 6].hidden

\* C25 as the specification states it: on 2026-01-01, the goal's first day,
\* elapsedDays is 1 and the phase is 1
C25_AsStated ==
    (Rendered /\ today = GoalStartDate) =>
        /\ progress.elapsedDays = 1
        /\ HasRocket => progress.phase = 1

\* C25: on 2026-01-01, the goal's first day, elapsedDays is 0 of 1460 days, the
\* percentage is 0 and the phase, where there is one, is 1; elapsedDays is 1 on
\* the day after
C25_FirstDay ==
    /\ (Rendered /\ today = GoalStartDate) =>
            /\ progress.elapsedDays = 0
            /\ progress.totalDays = 1460
            /\ progress.remainingDays = 1460
            /\ progress.percentage.num = 0
            /\ HasRocket => progress.phase = 1
    /\ (Rendered /\ today = GoalStartDate + 1) => progress.elapsedDays = 1

\* the progress bar of the Sheets variant on the goal's first day
C25_Witness ==
    /\ Rendered
    /\ today = GoalStartDate
    /\ variant = "sheets"
    /\ progress.elapsedDays = 0
    /\ progress.phase = 1

====
